---- MODULE Spec2Model ----
(***************************************************************************)
(* Model of load_midi_from_memory (app/src-tauri/src/commands/load_midi.rs)*)
(* as a state machine: the parsed file is the input, one step merges the   *)
(* tracks, one step per merged event runs the clock and the note matching, *)
(* and the last step sorts and returns the notes.                          *)
(*                                                                         *)
(* Seconds are f64 in the source.  With arithmetic = "exact" a finite      *)
(* value is modelled exactly, as the integer num standing for              *)
(* num / (ticks_per_quarter * 1_000_000) seconds; with arithmetic =        *)
(* "binary64" it is the f64 itself, sign, exponent and the 53 bits of the  *)
(* significand, and every operation rounds to nearest, ties to even.  A    *)
(* division by a zero ticks_per_quarter gives the IEEE 754 values +inf and *)
(* NaN, which are modelled with their IEEE arithmetic and comparison, so   *)
(* that with ticks_per_quarter = 0 the only finite value of the clock is 0.*)
(***************************************************************************)
EXTENDS Integers, Sequences, FiniteSets, TLC

VARIABLES content, pc, ticks_per_quarter, events, last_tick, seconds,
          tempo_micro, ongoing, notes, clocked, result

\* how the f64 operations of the clock are evaluated: "exact" keeps every
\* quotient as it is, "binary64" rounds each operation to the nearest f64
VARIABLES arithmetic

\* parse_lrc (app/src-tauri/src/commands/get_metadata.rs): the lines of the
\* text it is given, the lines its loop has still to read, and its lyrics
VARIABLES lrc_content, lrc_lines, lyrics, lrc_pc

midi_vars == <<content, pc, ticks_per_quarter, events, last_tick, seconds,
               tempo_micro, ongoing, notes, clocked, result, arithmetic>>

lrc_vars == <<lrc_content, lrc_lines, lyrics, lrc_pc>>

vars == <<content, pc, ticks_per_quarter, events, last_tick, seconds,
          tempo_micro, ongoing, notes, clocked, result, arithmetic,
          lrc_content, lrc_lines, lyrics, lrc_pc>>

(***************************************************************************)
(* Bounds and the values the inputs are drawn from.                        *)
(***************************************************************************)
MaxEvents == 3
MaxNoteEvents == 4
MaxZeroEvents == 5
MaxResolution == 3
MaxClockEvents == 4
MaxPairs == 4
MaxLines == 2
MaxStamps == 2
MaxRoundedEvents == 3

Channels == {0, 1}
Pitches == {60}
OnVelocities == {0, 64, 100}
OffVelocities == {32}
TempoValues == {250000}
DeltaValues == {0, 1}
TrackCounts == {0, 1, 2}
Resolutions == {0, 480}

TempoChoices == {0, 250000, 500000, 16777215}

DefaultTempo == 500000

(***************************************************************************)
(* f64 values.                                                             *)
(***************************************************************************)
Fin(n) == [cls |-> "fin", num |-> n]
PosInf == [cls |-> "inf", num |-> 0]
NegInf == [cls |-> "ninf", num |-> 0]
NaN == [cls |-> "nan", num |-> 0]

\* binary64 values that are not 0: sign, and the magnitude man * 2^exp with man
\* the 53 bits of the significand, first bit 1 (subnormals do not occur), held
\* as ManLimbs digits of LimbBits bits, most significant first
B64(neg, exp, man) == [cls |-> "b64", num |-> [neg |-> neg, exp |-> exp, man |-> man]]

MantissaBits == 53

MicrosPerSecond == 1000000

LimbBits == 10

Base == 2^LimbBits

ManLimbs == 6

ZeroLimbs(k) == [i \in 1..k |-> 0]

\* a natural number is a sequence of limbs; without its leading zeros
StripLimbs(a) ==
  IF \A i \in 1..Len(a) : a[i] = 0 THEN <<>>
  ELSE SubSeq(a, CHOOSE i \in 1..Len(a) : a[i] # 0 /\ \A j \in 1..(i - 1) : a[j] = 0, Len(a))

\* on n limbs, n >= Len(StripLimbs(a))
PadLimbs(a, n) == LET t == StripLimbs(a) IN ZeroLimbs(n - Len(t)) \o t

\* the number of bits of a, 0 for 0
BitLength(a) ==
  LET t == StripLimbs(a)
  IN IF t = <<>> THEN 0
     ELSE (Len(t) - 1) * LimbBits
            + (CHOOSE k \in 1..LimbBits : t[1] < 2^k /\ t[1] >= 2^(k - 1))

RECURSIVE AddLimbs(_, _, _)
\* a + b + c for two numbers of one length and a carry c: the limbs s of the
\* sum and the carry out c
AddLimbs(a, b, c) ==
  IF a = <<>> THEN [s |-> <<>>, c |-> c]
  ELSE LET n == Len(a)
           t == a[n] + b[n] + c
           hi == AddLimbs(SubSeq(a, 1, n - 1), SubSeq(b, 1, n - 1), t \div Base)
       IN [s |-> Append(hi.s, t % Base), c |-> hi.c]

RECURSIVE SubLimbs(_, _, _)
\* a - b - c for two numbers of one length and a borrow c, a >= b + c
SubLimbs(a, b, c) ==
  IF a = <<>> THEN <<>>
  ELSE LET n == Len(a)
           t == a[n] - b[n] - c
       IN Append(SubLimbs(SubSeq(a, 1, n - 1), SubSeq(b, 1, n - 1), IF t < 0 THEN 1 ELSE 0),
                 IF t < 0 THEN t + Base ELSE t)

RECURSIVE MulLimbs(_, _, _)
\* a * m + c for m <= Base, with one more limb than a
MulLimbs(a, m, c) ==
  IF a = <<>> THEN <<c>>
  ELSE LET n == Len(a)
           t == a[n] * m + c
       IN Append(MulLimbs(SubSeq(a, 1, n - 1), m, t \div Base), t % Base)

RECURSIVE DivLimbs(_, _, _)
\* long division by d < 2^21 of the number a that follows a remainder r < d:
\* the quotient q and the remainder r
DivLimbs(a, d, r) ==
  IF a = <<>> THEN [q |-> <<>>, r |-> r]
  ELSE LET t == r * Base + Head(a)
           lo == DivLimbs(Tail(a), d, t % d)
       IN [q |-> <<t \div d>> \o lo.q, r |-> lo.r]

\* a < b for two numbers of one length
LessLimbs(a, b) ==
  \E i \in 1..Len(a) : a[i] < b[i] /\ \A j \in 1..(i - 1) : a[j] = b[j]

\* a * 2^k
ShiftLeft(a, k) == MulLimbs(a \o ZeroLimbs(k \div LimbBits), 2^(k % LimbBits), 0)

\* a \div 2^k, and whether a bit that is 1 was shifted out
ShiftRight(a, k) ==
  LET n == Len(a) - k \div LimbBits
      d == DivLimbs(SubSeq(a, 1, n), 2^(k % LimbBits), 0)
  IN [q |-> d.q, r |-> d.r # 0 \/ \E i \in (n + 1)..Len(a) : i >= 1 /\ a[i] # 0]

\* round to nearest, ties to even: the binary64 value nearest to a * 2^exp
\* (plus a fraction below the last bit when sticky)
Round(neg, a, sticky, exp) ==
  LET L == BitLength(a)
  IN IF L = 0 THEN Fin(0)
     ELSE IF L <= MantissaBits
     THEN B64(neg, exp - (MantissaBits - L), PadLimbs(ShiftLeft(a, MantissaBits - L), ManLimbs))
     ELSE LET sh == ShiftRight(StripLimbs(a), L - MantissaBits - 1)
              guard == sh.q[Len(sh.q)] % 2
              m == PadLimbs(DivLimbs(sh.q, 2, 0).q, ManLimbs)
              up == guard = 1 /\ (sticky \/ sh.r \/ m[ManLimbs] % 2 = 1)
              inc == AddLimbs(m, ZeroLimbs(ManLimbs - 1) \o <<1>>, 0).s
          IN IF ~up THEN B64(neg, exp + (L - MantissaBits), m)
             ELSE IF BitLength(inc) > MantissaBits
             THEN B64(neg, exp + (L - MantissaBits) + 1, PadLimbs(DivLimbs(inc, 2, 0).q, ManLimbs))
             ELSE B64(neg, exp + (L - MantissaBits), inc)

\* n as f64, for a natural number n below 2^31 (exact)
FromNat(n) ==
  Round(FALSE, <<n \div (Base * Base * Base), (n \div (Base * Base)) % Base,
                 (n \div Base) % Base, n % Base>>, FALSE, 0)

\* a / d for a binary64 a and a natural number d, 0 < d < 2^21 (d as f64 is
\* exact): the quotient is carried to 3 limbs more than the significand
FDivNat(a, d) ==
  IF a.cls # "b64" THEN a
  ELSE LET qr == DivLimbs(a.num.man \o ZeroLimbs(3), d, 0)
       IN Round(a.num.neg, qr.q, qr.r # 0, a.num.exp - 3 * LimbBits)

\* the sum of two binary64 values that are not 0
B64Add(a, b) ==
  LET e == IF a.num.exp < b.num.exp THEN a.num.exp ELSE b.num.exp
      xs == ShiftLeft(a.num.man, a.num.exp - e)
      ys == ShiftLeft(b.num.man, b.num.exp - e)
      n == 1 + (IF Len(xs) < Len(ys) THEN Len(ys) ELSE Len(xs))
      x == PadLimbs(xs, n)
      y == PadLimbs(ys, n)
  IN IF a.num.neg = b.num.neg THEN Round(a.num.neg, AddLimbs(x, y, 0).s, FALSE, e)
     ELSE IF x = y THEN Fin(0)
     ELSE IF LessLimbs(x, y) THEN Round(b.num.neg, SubLimbs(y, x, 0), FALSE, e)
     ELSE Round(a.num.neg, SubLimbs(x, y, 0), FALSE, e)

\* a finite value: an exact one (cls "fin"; where binary64 values are used it
\* is 0) or a binary64 one
IsFinite(a) == a.cls \in {"fin", "b64"}

FAdd(a, b) ==
  IF a.cls = "nan" \/ b.cls = "nan" THEN NaN
  ELSE IF a.cls = "fin" /\ b.cls = "fin" THEN Fin(a.num + b.num)
  ELSE IF a.cls = "b64" /\ b.cls = "b64" THEN B64Add(a, b)
  ELSE IF a.cls = "fin" THEN b
  ELSE IF b.cls = "fin" THEN a
  ELSE IF a.cls = "b64" THEN b
  ELSE IF b.cls = "b64" THEN a
  ELSE IF a.cls = b.cls THEN a
  ELSE NaN

FNeg(a) ==
  IF a.cls = "fin" THEN Fin(0 - a.num)
  ELSE IF a.cls = "b64" THEN B64(~a.num.neg, a.num.exp, a.num.man)
  ELSE IF a.cls = "inf" THEN NegInf
  ELSE IF a.cls = "ninf" THEN PosInf
  ELSE NaN

FSub(a, b) == FAdd(a, FNeg(b))

\* -1, 0 or 1
Signum(a) ==
  IF a.cls = "b64" THEN (IF a.num.neg THEN -1 ELSE 1)
  ELSE IF a.num < 0 THEN -1 ELSE IF a.num = 0 THEN 0 ELSE 1

\* a < b for two binary64 values that are not 0
B64Less(a, b) ==
  LET below(x, y) == x.exp < y.exp \/ (x.exp = y.exp /\ LessLimbs(x.man, y.man))
  IN IF a.num.neg # b.num.neg THEN a.num.neg
     ELSE IF a.num.neg THEN below(b.num, a.num) ELSE below(a.num, b.num)

\* f64::partial_cmp: "lt", "eq", "gt", or "none" when either side is NaN.
PartialCmp(a, b) ==
  IF a.cls = "nan" \/ b.cls = "nan" THEN "none"
  ELSE IF a.cls = "b64" /\ b.cls = "b64" THEN
    (IF a = b THEN "eq" ELSE IF B64Less(a, b) THEN "lt" ELSE "gt")
  ELSE IF IsFinite(a) /\ IsFinite(b) /\ (a.cls = "b64" \/ b.cls = "b64") THEN
    (IF Signum(a) < Signum(b) THEN "lt" ELSE "gt")
  ELSE IF a.cls = b.cls THEN
    (IF a.cls # "fin" \/ a.num = b.num THEN "eq"
     ELSE IF a.num < b.num THEN "lt" ELSE "gt")
  ELSE IF a.cls = "ninf" \/ b.cls = "inf" THEN "lt"
  ELSE "gt"

FLe(a, b) == PartialCmp(a, b) \in {"lt", "eq"}
FGeZero(a) == FLe(Fin(0), a)

(***************************************************************************)
(* The parsed file.                                                        *)
(***************************************************************************)
NoteOn(ch, k, v) == [tag |-> "NoteOn", channel |-> ch, key |-> k, vel |-> v, tempo |-> 0]
NoteOff(ch, k, v) == [tag |-> "NoteOff", channel |-> ch, key |-> k, vel |-> v, tempo |-> 0]
Tempo(t) == [tag |-> "Tempo", channel |-> 0, key |-> 0, vel |-> 0, tempo |-> t]
Other == [tag |-> "Other", channel |-> 0, key |-> 0, vel |-> 0, tempo |-> 0]

Kinds ==
  {NoteOn(ch, k, v) : ch \in Channels, k \in Pitches, v \in OnVelocities}
  \cup {NoteOff(ch, k, v) : ch \in Channels, k \in Pitches, v \in OffVelocities}
  \cup {Tempo(t) : t \in TempoValues}
  \cup {Other}

TrackEvents == [delta : DeltaValues, kind : Kinds]

Metrical(t) == [tag |-> "Metrical", t |-> t]
Timecode == [tag |-> "Timecode", t |-> 0]

SeqsUpTo(S, n) == UNION {[1..k -> S] : k \in 0..n}

RECURSIVE Splits(_, _)
\* every way to cut the event sequence s into k consecutive tracks
Splits(s, k) ==
  IF k = 0 THEN (IF s = <<>> THEN {<<>>} ELSE {})
  ELSE IF k = 1 THEN {<<s>>}
  ELSE UNION {{<<SubSeq(s, 1, c)>> \o rest :
                 rest \in Splits(SubSeq(s, c + 1, Len(s)), k - 1)} :
              c \in 0..Len(s)}

Smf(timing, tracks) == [ok |-> TRUE, timing |-> timing, tracks |-> tracks]
Malformed == [ok |-> FALSE, timing |-> Timecode, tracks |-> <<>>]

(***************************************************************************)
(* load_midi_from_memory                                                   *)
(***************************************************************************)
\* the tempo is never changed
NextTempo_Ignored(kind, tempo) == tempo

\* both channels share one entry per pitch
KeyOf_PitchOnly(kind) == <<0, kind.key>>

\* a timing word read as ticks whatever its format
TimingTicks_AnyFormat(timing) == timing.t

\* lines 39-42: the resolution, or -1 for a timing that is not metrical
TimingTicks(timing) == IF timing.tag = "Metrical" THEN timing.t ELSE -1

\* line 49 (the u64 modulus is beyond every sum the bounds reach)
WrappingAdd(a, b) == a + b

RECURSIVE TrackAbs(_, _)
\* lines 47-51: one track's events with their absolute ticks
TrackAbs(track, abs) ==
  IF track = <<>> THEN <<>>
  ELSE LET a == WrappingAdd(abs, Head(track).delta)
       IN <<[tick |-> a, kind |-> Head(track).kind]>> \o TrackAbs(Tail(track), a)

RECURSIVE CollectEvents_SharedClock(_)
\* a track goes on from the absolute tick the track before it ended at
CollectEvents_SharedClock(tracks) ==
  IF tracks = <<>> THEN <<>>
  ELSE LET before == CollectEvents_SharedClock(SubSeq(tracks, 1, Len(tracks) - 1))
           abs == IF before = <<>> THEN 0 ELSE before[Len(before)].tick
       IN before \o TrackAbs(tracks[Len(tracks)], abs)

RECURSIVE CollectEvents(_)
\* lines 45-52
CollectEvents(tracks) ==
  IF tracks = <<>> THEN <<>>
  ELSE TrackAbs(Head(tracks), 0) \o CollectEvents(Tail(tracks))

RECURSIVE InsertByTick_TiesFirst(_, _)
\* e goes before the elements of its own tick
InsertByTick_TiesFirst(sorted, e) ==
  IF sorted = <<>> THEN <<e>>
  ELSE IF Head(sorted).tick < e.tick
       THEN <<Head(sorted)>> \o InsertByTick_TiesFirst(Tail(sorted), e)
       ELSE <<e>> \o sorted

RECURSIVE InsertByTick(_, _)
\* e goes after every element whose tick is <= e.tick
InsertByTick(sorted, e) ==
  IF sorted = <<>> THEN <<e>>
  ELSE IF Head(sorted).tick <= e.tick
       THEN <<Head(sorted)>> \o InsertByTick(Tail(sorted), e)
       ELSE <<e>> \o sorted

RECURSIVE SortByTick(_)
\* line 55: sort_by_key is a stable sort
SortByTick(evs) ==
  IF evs = <<>> THEN <<>>
  ELSE InsertByTick(SortByTick(SubSeq(evs, 1, Len(evs) - 1)), evs[Len(evs)])

\* line 67
SaturatingSub(a, b) == IF a >= b THEN a - b ELSE 0

\* line 70: delta * tempo / ticks_per_quarter / 1_000_000 in f64 (the product
\* is exact, each of the two quotients is rounded)
TicksToSeconds(delta, tempo, tpq) ==
  IF tpq = 0
  THEN (IF delta * tempo = 0 THEN NaN ELSE PosInf)
  ELSE IF arithmetic = "binary64"
  THEN FDivNat(FDivNat(FromNat(delta * tempo), tpq), MicrosPerSecond)
  ELSE Fin(delta * tempo)

\* lines 67-72
ClockSeconds(abs_tick, last, secs, tempo, tpq) ==
  LET delta_ticks == SaturatingSub(abs_tick, last)
  IN IF delta_ticks # 0
     THEN FAdd(secs, TicksToSeconds(delta_ticks, tempo, tpq))
     ELSE secs

ClockLastTick(abs_tick, last) ==
  IF SaturatingSub(abs_tick, last) # 0 THEN abs_tick ELSE last

\* the advance of a Tempo event already uses the tempo it carries
ClockTempo_NewFirst(kind, tempo) == IF kind.tag = "Tempo" THEN kind.tempo ELSE tempo

\* line 70 comes before the match of line 74: the advance for an event's own
\* tick reads tempo_micro as the earlier events left it
ClockTempo(kind, tempo) == tempo

\* lines 75-77
NextTempo(kind, tempo) == IF kind.tag = "Tempo" THEN kind.tempo ELSE tempo

\* the key of the ongoing-note map, lines 85, 88, 97
KeyOf(kind) == <<kind.channel, kind.key>>

\* lines 80, 84: a NoteOn that opens a note
IsOpen(kind) == kind.tag = "NoteOn" /\ kind.vel > 0

\* only a NoteOff closes
IsClose_NoteOffOnly(kind) == kind.tag = "NoteOff"

\* lines 86-88, 94-97: a NoteOn of velocity 0, or a NoteOff
IsClose(kind) ==
  \/ kind.tag = "NoteOn" /\ kind.vel = 0
  \/ kind.tag = "NoteOff"

\* an insert that keeps the entry already there
MapInsert_KeepFirst(m, k, v) ==
  [x \in DOMAIN m \cup {k} |-> IF x \in DOMAIN m THEN m[x] ELSE v]

\* HashMap::insert, line 85
MapInsert(m, k, v) == [x \in DOMAIN m \cup {k} |-> IF x = k THEN v ELSE m[x]]

\* the entry is read and left in the map
MapRemove_Keeps(m, k) == m

\* HashMap::remove, lines 88, 97
MapRemove(m, k) == [x \in DOMAIN m \ {k} |-> m[x]]

\* an event that is skipped drops the notes that are sounding
NextOngoing_SkipClears(kind, secs, m) ==
  IF IsOpen(kind) THEN MapInsert(m, KeyOf(kind), [start |-> secs, vel |-> kind.vel])
  ELSE IF IsClose(kind) THEN MapRemove(m, KeyOf(kind))
  ELSE [x \in {} |-> m[x]]

\* a close reads the entry and leaves it in the map
NextOngoing_CloseKeeps(kind, secs, m) ==
  IF IsOpen(kind) THEN MapInsert(m, KeyOf(kind), [start |-> secs, vel |-> kind.vel])
  ELSE m

\* lines 80-101: the ongoing map after the event
NextOngoing(kind, secs, m) ==
  IF IsOpen(kind) THEN MapInsert(m, KeyOf(kind), [start |-> secs, vel |-> kind.vel])
  ELSE IF IsClose(kind) THEN MapRemove(m, KeyOf(kind))
  ELSE m

\* the note takes the velocity of the closing event
MakeNote_CloseVelocity(kind, secs, entry) ==
  [note |-> kind.key, start |-> entry.start, duration |-> FSub(secs, entry.start),
   velocity |-> kind.vel, channel |-> kind.channel, confidence |-> "None"]

\* lines 89-90, 98-99
MakeNote(kind, secs, entry) ==
  [note |-> kind.key, start |-> entry.start, duration |-> FSub(secs, entry.start),
   velocity |-> entry.vel, channel |-> kind.channel, confidence |-> "None"]

\* a close of a silent key emits a note of duration 0
NextNotes_OrphanEmits(kind, secs, m, ns) ==
  IF IsClose(kind)
  THEN Append(ns, MakeNote(kind, secs,
                IF KeyOf(kind) \in DOMAIN m THEN m[KeyOf(kind)]
                ELSE [start |-> secs, vel |-> kind.vel]))
  ELSE ns

\* lines 88-91, 97-100: the notes after the event
NextNotes(kind, secs, m, ns) ==
  IF IsClose(kind) /\ KeyOf(kind) \in DOMAIN m
  THEN Append(ns, MakeNote(kind, secs, m[KeyOf(kind)]))
  ELSE ns

\* every key still sounding is closed at the end of the stream
FinalNotes_CloseSounding(ns, m, secs) ==
  IF DOMAIN m = {} THEN ns
  ELSE LET k == CHOOSE x \in DOMAIN m : TRUE
       IN Append(ns, [note |-> k[2], start |-> m[k].start,
                      duration |-> FSub(secs, m[k].start), velocity |-> m[k].vel,
                      channel |-> k[1], confidence |-> "None"])

\* lines 107-110: after the loop the ongoing map is dropped as it is
FinalNotes(ns, m, secs) == ns

\* line 110: the comparator, partial_cmp(..).unwrap_or(Equal)
CmpStart(a, b) ==
  LET c == PartialCmp(a.start, b.start) IN IF c = "none" THEN "eq" ELSE c

RECURSIVE InsertByStart(_, _)
InsertByStart(sorted, n) ==
  IF sorted = <<>> THEN <<n>>
  ELSE IF CmpStart(Head(sorted), n) \in {"lt", "eq"}
       THEN <<Head(sorted)>> \o InsertByStart(Tail(sorted), n)
       ELSE <<n>> \o sorted

RECURSIVE StableSortByStart(_)
StableSortByStart(ns) ==
  IF ns = <<>> THEN <<>>
  ELSE InsertByStart(StableSortByStart(SubSeq(ns, 1, Len(ns) - 1)), ns[Len(ns)])

\* the comparator orders the notes consistently: "eq" is transitive with "lt"
ConsistentOrder(ns) ==
  \A i, j, k \in 1..Len(ns) :
    (CmpStart(ns[i], ns[j]) = "eq" /\ CmpStart(ns[j], ns[k]) = "eq")
      => CmpStart(ns[i], ns[k]) = "eq"

Reorderings(ns) ==
  {[i \in 1..Len(ns) |-> ns[p[i]]] :
     p \in {q \in [1..Len(ns) -> 1..Len(ns)] : \A i, j \in 1..Len(ns) : i # j => q[i] # q[j]}}

Ok(ns) == [tag |-> "Ok", notes |-> ns, msg |-> ""]
Err(msg) == [tag |-> "Err", notes |-> <<>>, msg |-> msg]
Panic == [tag |-> "Panic", notes |-> <<>>, msg |-> ""]
Pending == [tag |-> "Pending", notes |-> <<>>, msg |-> ""]

\* an empty note list is reported as an error
SortOutcomes_EmptyIsError(ns) ==
  IF ns = <<>> THEN {Err("no notes")}
  ELSE IF ConsistentOrder(ns) THEN {Ok(StableSortByStart(ns))}
  ELSE {Ok(p) : p \in Reorderings(ns)} \cup {Panic}

\* lines 110-111: slice::sort_by is a stable sort when the comparator is a total
\* order; when it is not, the order is unspecified and the call may panic
SortOutcomes(ns) ==
  IF ConsistentOrder(ns) THEN {Ok(StableSortByStart(ns))}
  ELSE {Ok(p) : p \in Reorderings(ns)} \cup {Panic}

EmptyMap == [x \in {} |-> 0]

InitArithmetic(c, a) ==
  /\ content = c
  /\ arithmetic = a
  /\ pc = "parse"
  /\ ticks_per_quarter = 0
  /\ events = <<>>
  /\ last_tick = 0
  /\ seconds = Fin(0)
  /\ tempo_micro = DefaultTempo
  /\ ongoing = EmptyMap
  /\ notes = <<>>
  /\ clocked = <<>>
  /\ result = Pending
  /\ lrc_content = <<>>
  /\ lrc_lines = <<>>
  /\ lyrics = <<>>
  /\ lrc_pc = "idle"

InitWith(c) == InitArithmetic(c, "exact")

\* the inputs: a buffer that does not parse, a file with SMPTE timing, and every
\* metrical file of at most MaxEvents events in at most two tracks
Init ==
  \/ InitWith(Malformed)
  \/ \E s \in SeqsUpTo(TrackEvents, 1) : \E k \in TrackCounts :
       \E ts \in Splits(s, k) : InitWith(Smf(Timecode, ts))
  \/ \E s \in SeqsUpTo(TrackEvents, MaxEvents) : \E k \in TrackCounts :
       \E ts \in Splits(s, k) : \E t \in Resolutions :
         InitWith(Smf(Metrical(t), ts))

\* line 36
ParseFails ==
  /\ pc = "parse"
  /\ ~content.ok
  /\ result' = Err("failed to parse midi")
  /\ pc' = "done"
  /\ UNCHANGED <<content, ticks_per_quarter, events, last_tick, seconds,
                 tempo_micro, ongoing, notes, clocked, arithmetic>>
  /\ UNCHANGED lrc_vars

\* lines 39-42
UnsupportedTiming ==
  /\ pc = "parse"
  /\ content.ok
  /\ TimingTicks(content.timing) < 0
  /\ result' = Err("SMPTE time formats are not supported")
  /\ pc' = "done"
  /\ UNCHANGED <<content, ticks_per_quarter, events, last_tick, seconds,
                 tempo_micro, ongoing, notes, clocked, arithmetic>>
  /\ UNCHANGED lrc_vars

\* lines 39-64
Merge ==
  /\ pc = "parse"
  /\ content.ok
  /\ TimingTicks(content.timing) >= 0
  /\ ticks_per_quarter' = TimingTicks(content.timing)
  /\ events' = SortByTick(CollectEvents(content.tracks))
  /\ last_tick' = 0
  /\ seconds' = Fin(0)
  /\ tempo_micro' = DefaultTempo
  /\ ongoing' = EmptyMap
  /\ notes' = <<>>
  /\ pc' = "loop"
  /\ UNCHANGED <<content, clocked, result, arithmetic>>
  /\ UNCHANGED lrc_vars

\* lines 66-107, one iteration
ProcessEvent ==
  /\ pc = "loop"
  /\ events # <<>>
  /\ LET abs_tick == Head(events).tick
         kind == Head(events).kind
         secs == ClockSeconds(abs_tick, last_tick, seconds,
                             ClockTempo(kind, tempo_micro), ticks_per_quarter)
     IN /\ seconds' = secs
        /\ last_tick' = ClockLastTick(abs_tick, last_tick)
        /\ tempo_micro' = NextTempo(kind, tempo_micro)
        /\ ongoing' = NextOngoing(kind, secs, ongoing)
        /\ notes' = NextNotes(kind, secs, ongoing, notes)
        /\ clocked' = Append(clocked, [tick |-> abs_tick, seconds |-> secs, kind |-> kind])
  /\ events' = Tail(events)
  /\ UNCHANGED <<content, pc, ticks_per_quarter, result, arithmetic>>
  /\ UNCHANGED lrc_vars

\* lines 109-111
Return ==
  /\ pc = "loop"
  /\ events = <<>>
  /\ \E r \in SortOutcomes(FinalNotes(notes, ongoing, seconds)) :
       /\ result' = r
       /\ notes' = r.notes
  /\ pc' = "done"
  /\ UNCHANGED <<content, ticks_per_quarter, events, last_tick, seconds,
                 tempo_micro, ongoing, clocked, arithmetic>>
  /\ UNCHANGED lrc_vars

Next == ParseFails \/ UnsupportedTiming \/ Merge \/ ProcessEvent \/ Return

Spec == Init /\ [][Next]_vars

(***************************************************************************)
(* Other input families, decoded by the same steps.                        *)
(***************************************************************************)
InitRejected ==
  \/ InitWith(Malformed)
  \/ \E s \in SeqsUpTo(TrackEvents, 1) : \E k \in TrackCounts :
       \E ts \in Splits(s, k) : InitWith(Smf(Timecode, ts))

\* note events of one pitch on two channels, up to MaxNoteEvents of them
ChannelKinds == {NoteOn(0, 60, 64), NoteOn(1, 60, 100), NoteOff(0, 60, 32), NoteOff(1, 60, 32)}

InitChannels ==
  \/ InitRejected
  \/ \E s \in SeqsUpTo([delta : DeltaValues, kind : ChannelKinds], MaxNoteEvents) :
       \E k \in TrackCounts : \E ts \in Splits(s, k) : \E t \in Resolutions :
         InitWith(Smf(Metrical(t), ts))

SpecChannels == InitChannels /\ [][Next]_vars

\* one track of a file whose header carries 0 ticks per quarter note
ZeroKinds == {Tempo(0), NoteOn(0, 60, 64), NoteOn(1, 60, 64), NoteOff(0, 60, 32), NoteOff(1, 60, 32)}

InitZeroResolution ==
  \/ InitRejected
  \/ \E s \in SeqsUpTo([delta : DeltaValues, kind : ZeroKinds], MaxZeroEvents) :
       InitWith(Smf(Metrical(0), <<s>>))

SpecZeroResolution == InitZeroResolution /\ [][Next]_vars

\* tempo changes (tempo 0 among them) and other events, up to MaxClockEvents of
\* them in one or two tracks
ClockKinds == {Tempo(0), Tempo(250000), Other, NoteOn(0, 60, 64)}

InitClock ==
  \/ InitRejected
  \/ \E s \in SeqsUpTo([delta : DeltaValues, kind : ClockKinds], MaxClockEvents) :
       \E k \in {1, 2} : \E ts \in Splits(s, k) : \E t \in Resolutions :
         InitWith(Smf(Metrical(t), ts))

SpecClock == InitClock /\ [][Next]_vars

\* one track of up to MaxPairs notes played one after the other, each a NoteOn
\* and its NoteOff at one tick, some with a change to tempo 0 before them
PairBlock(ch, d, t) ==
  (IF t THEN <<[delta |-> 0, kind |-> Tempo(0)]>> ELSE <<>>)
    \o <<[delta |-> d, kind |-> NoteOn(ch, 60, 64)], [delta |-> 0, kind |-> NoteOff(ch, 60, 32)]>>

PairBlocks == {PairBlock(ch, d, t) : ch \in Channels, d \in DeltaValues, t \in BOOLEAN}

RECURSIVE Flatten(_)
Flatten(ss) == IF ss = <<>> THEN <<>> ELSE Head(ss) \o Flatten(Tail(ss))

InitPairs ==
  \/ InitRejected
  \/ \E bs \in SeqsUpTo(PairBlocks, MaxPairs) : \E t \in Resolutions :
       InitWith(Smf(Metrical(t), <<Flatten(bs)>>))

SpecPairs == InitPairs /\ [][Next]_vars

\* the files holding exactly a Tempo change to T at tick 0, a NoteOn at tick
\* tpq and its NoteOff at tick 2 * tpq, in every arrangement into tracks that
\* keeps events of equal tick in this order
TempoNoteEvents(T, tpq) ==
  <<[tick |-> 0, kind |-> Tempo(T)],
    [tick |-> tpq, kind |-> NoteOn(0, 60, 64)],
    [tick |-> 2 * tpq, kind |-> NoteOff(0, 60, 32)]>>

Orders(n) == {p \in [1..n -> 1..n] : \A i, j \in 1..n : i # j => p[i] # p[j]}

MonotoneTicks(abs) == \A i \in 1..(Len(abs) - 1) : abs[i].tick <= abs[i + 1].tick

DeltaEncode(abs) ==
  [i \in 1..Len(abs) |->
     [delta |-> abs[i].tick - (IF i = 1 THEN 0 ELSE abs[i - 1].tick), kind |-> abs[i].kind]]

InitTempoNote ==
  \/ InitRejected
  \/ \E T \in TempoChoices : \E tpq \in 0..MaxResolution : \E p \in Orders(3) :
       \E k \in 1..3 :
         \E ts \in Splits([i \in 1..3 |-> TempoNoteEvents(T, tpq)[p[i]]], k) :
           /\ \A i \in 1..k : MonotoneTicks(ts[i])
           /\ \A i, j \in 1..3 :
                (i < j /\ TempoNoteEvents(T, tpq)[p[i]].tick = TempoNoteEvents(T, tpq)[p[j]].tick)
                  => p[i] < p[j]
           /\ InitWith(Smf(Metrical(tpq), [i \in 1..k |-> DeltaEncode(ts[i])]))

SpecTempoNote == InitTempoNote /\ [][Next]_vars

\* files of a usual resolution decoded in binary64: up to MaxRoundedEvents
\* events in one track or cut into two tracks that are not empty, events that
\* are skipped among them
RoundedResolutions == {480}

RoundedDeltas == {0, 1, 5}

RoundedTracks == {1, 2}

RoundedKinds == {Other, Tempo(250000), NoteOn(0, 60, 64), NoteOff(0, 60, 32)}

InitRounded ==
  \/ InitRejected
  \/ \E s \in SeqsUpTo([delta : RoundedDeltas, kind : RoundedKinds], MaxRoundedEvents) :
       \E k \in RoundedTracks : \E ts \in Splits(s, k) : \E t \in RoundedResolutions :
         /\ k > 1 => \A i \in 1..k : ts[i] # <<>>
         /\ InitArithmetic(Smf(Metrical(t), ts), "binary64")

SpecRounded == InitRounded /\ [][Next]_vars

(***************************************************************************)
(* parse_lrc (app/src-tauri/src/commands/get_metadata.rs).  A string is a  *)
(* sequence of one-character strings; the time of a lyric line is an f64   *)
(* as above, a finite one being a whole number of seconds.                 *)
(***************************************************************************)
RECURSIVE TrimStart(_)
TrimStart(s) == IF s # <<>> /\ Head(s) = " " THEN TrimStart(Tail(s)) ELSE s

RECURSIVE TrimEnd(_)
TrimEnd(s) ==
  IF s # <<>> /\ s[Len(s)] = " " THEN TrimEnd(SubSeq(s, 1, Len(s) - 1)) ELSE s

\* str::trim, lines 105, 132
Trim(s) == TrimEnd(TrimStart(s))

\* str::find of one character: the index of its first occurrence, 0 for None
Find(s, c) ==
  IF \E i \in 1..Len(s) : s[i] = c
  THEN CHOOSE i \in 1..Len(s) : s[i] = c /\ \A j \in 1..(i - 1) : s[j] # c
  ELSE 0

Digits == <<"0", "1", "2", "3", "4", "5", "6", "7", "8", "9">>
IsDigit(c) == \E d \in 1..10 : Digits[d] = c
DigitValue(c) == (CHOOSE d \in 1..10 : Digits[d] = c) - 1

RECURSIVE DecimalValue(_)
DecimalValue(s) ==
  IF s = <<>> THEN 0
  ELSE 10 * DecimalValue(SubSeq(s, 1, Len(s) - 1)) + DigitValue(s[Len(s)])

\* str::parse::<f64>().unwrap_or(0.0), lines 120-121, on the strings the
\* inputs are made of: a run of digits is its value, "nan" is NaN, and the
\* empty string, a string with a blank and every other string of letters
\* fail to parse and give 0.0
ParseOrZero(s) ==
  IF s = <<"n", "a", "n">> THEN NaN
  ELSE IF s # <<>> /\ \A i \in 1..Len(s) : IsDigit(s[i]) THEN Fin(DecimalValue(s))
  ELSE Fin(0)

\* mmv * 60.0
FTimes60(a) == IF a.cls = "fin" THEN Fin(60 * a.num) ELSE a

\* lines 117-123: the time of a stamp that holds a colon
StampTime(stamp) ==
  LET colon == Find(stamp, ":")
      mm == SubSeq(stamp, 1, colon - 1)
      ss == SubSeq(stamp, colon + 1, Len(stamp))
  IN FAdd(FTimes60(ParseOrZero(mm)), ParseOrZero(ss))

RECURSIVE LeadingTimes(_)
\* lines 111-130: the while loop over the stamps at the start of the line,
\* giving the times collected and what is left of the line
LeadingTimes(rest) ==
  IF rest # <<>> /\ Head(rest) = "[" /\ Find(rest, "]") # 0
  THEN LET idx == Find(rest, "]")
           stamp == SubSeq(rest, 2, idx - 1)
           after == LeadingTimes(SubSeq(rest, idx + 1, Len(rest)))
       IN [times |-> (IF Find(stamp, ":") # 0 THEN <<StampTime(stamp)>> ELSE <<>>)
                       \o after.times,
           rest |-> after.rest]
  ELSE [times |-> <<>>, rest |-> rest]

\* lines 104-136: the entries one line adds to lyrics
LineEntries(raw_line) ==
  LET line == Trim(raw_line)
  IN IF line = <<>> THEN <<>>
     ELSE LET r == LeadingTimes(line)
              text == Trim(r.rest)
          IN [i \in 1..Len(r.times) |-> [time |-> r.times[i], text |-> text]]

\* line 138: the comparator
CmpTime(a, b) ==
  LET c == PartialCmp(a.time, b.time) IN IF c = "none" THEN "eq" ELSE c

RECURSIVE InsertByTime(_, _)
InsertByTime(sorted, l) ==
  IF sorted = <<>> THEN <<l>>
  ELSE IF CmpTime(Head(sorted), l) \in {"lt", "eq"}
       THEN <<Head(sorted)>> \o InsertByTime(Tail(sorted), l)
       ELSE <<l>> \o sorted

RECURSIVE StableSortByTime(_)
StableSortByTime(ls) ==
  IF ls = <<>> THEN <<>>
  ELSE InsertByTime(StableSortByTime(SubSeq(ls, 1, Len(ls) - 1)), ls[Len(ls)])

ConsistentTimes(ls) ==
  \A i, j, k \in 1..Len(ls) :
    (CmpTime(ls[i], ls[j]) = "eq" /\ CmpTime(ls[j], ls[k]) = "eq")
      => CmpTime(ls[i], ls[k]) = "eq"

\* lines 138-139: slice::sort_by, as at the end of load_midi_from_memory
LyricSortOutcomes(ls) ==
  IF ConsistentTimes(ls) THEN {[pc |-> "done", lyrics |-> StableSortByTime(ls)]}
  ELSE {[pc |-> "done", lyrics |-> p] : p \in Reorderings(ls)}
         \cup {[pc |-> "panic", lyrics |-> <<>>]}

\* the texts parse_lrc is given: up to MaxLines lines, each a blank line or up
\* to MaxStamps bracketed stamps followed by a text
StampBodies ==
  {<<"0", ":", "5">>, <<"1", ":", "0">>, <<"n", "a", "n", ":", "0">>,
   <<"x", ":", "1", "0">>, <<"x">>}

Stamps == {<<"[">> \o b \o <<"]">> : b \in StampBodies}

LineTexts ==
  {<<>>, <<"a">>, <<" ", "b", " ">>, <<" ", "[", "1", ":", "0", "]", "a">>,
   <<"[", "1", ":", "0">>}

LrcLines ==
  {<<" ">>}
    \cup {pre \o Flatten(gs) \o t :
            pre \in {<<>>, <<" ">>}, gs \in SeqsUpTo(Stamps, MaxStamps), t \in LineTexts}

InitLrc ==
  /\ content = Malformed
  /\ arithmetic = "exact"
  /\ pc = "idle"
  /\ ticks_per_quarter = 0
  /\ events = <<>>
  /\ last_tick = 0
  /\ seconds = Fin(0)
  /\ tempo_micro = DefaultTempo
  /\ ongoing = EmptyMap
  /\ notes = <<>>
  /\ clocked = <<>>
  /\ result = Pending
  /\ \E n \in 0..MaxLines : \E ls \in [1..n -> LrcLines] :
       /\ lrc_content = ls
       /\ lrc_lines = ls
  /\ lyrics = <<>>
  /\ lrc_pc = "lines"

\* lines 104-136, one iteration of the loop over content.lines()
ParseLine ==
  /\ lrc_pc = "lines"
  /\ lrc_lines # <<>>
  /\ lyrics' = lyrics \o LineEntries(Head(lrc_lines))
  /\ lrc_lines' = Tail(lrc_lines)
  /\ UNCHANGED <<lrc_content, lrc_pc>>
  /\ UNCHANGED midi_vars

\* lines 138-139
SortLyrics ==
  /\ lrc_pc = "lines"
  /\ lrc_lines = <<>>
  /\ \E r \in LyricSortOutcomes(lyrics) :
       /\ lyrics' = r.lyrics
       /\ lrc_pc' = r.pc
  /\ UNCHANGED <<lrc_content, lrc_lines>>
  /\ UNCHANGED midi_vars

NextLrc == ParseLine \/ SortLyrics

SpecLrc == InitLrc /\ [][NextLrc]_vars

(***************************************************************************)
(* Properties.                                                             *)
(***************************************************************************)
Processing == pc = "loop" /\ events # <<>>
Current == Head(events).kind
Done == pc = "done"
MetricalFile == content.ok /\ content.timing.tag = "Metrical"
Returned == Done /\ result.tag = "Ok"

Opening(kind) == kind.tag = "NoteOn" /\ kind.vel > 0
Closing(kind) == kind.tag = "NoteOff" \/ (kind.tag = "NoteOn" /\ kind.vel = 0)
NoteEvent(kind) == kind.tag \in {"NoteOn", "NoteOff"}
Key(kind) == <<kind.channel, kind.key>>
Elems(s) == {s[i] : i \in 1..Len(s)}
AllKinds(tracks) == UNION {{tracks[i][j].kind : j \in 1..Len(tracks[i])} : i \in 1..Len(tracks)}

\* C1: the notes of an Ok result are in ascending order of start: each note's
\* start is <= the start of the next one.
C1_SortedByStart ==
  Returned => \A i \in 1..(Len(result.notes) - 1) :
                FLe(result.notes[i].start, result.notes[i + 1].start)

\* C2: every note of an Ok result has start >= 0 and duration >= 0.
C2_NonNegative ==
  Returned => \A n \in Elems(result.notes) : FGeZero(n.start) /\ FGeZero(n.duration)

\* x is micros / 1_000_000 seconds, in a file of resolution tpq (with tpq = 0
\* the only finite value the clock takes is 0)
IsMicros(x, micros, tpq) ==
  /\ x.cls = "fin"
  /\ IF tpq = 0 THEN x.num = 0 /\ micros = 0 ELSE x.num = micros * tpq

TempoNoteFile(T, tpq) ==
  /\ Done /\ MetricalFile /\ content.timing.t = tpq /\ Len(clocked) = 3
  /\ {<<c.tick, c.kind>> : c \in Elems(clocked)}
       = {<<e.tick, e.kind>> : e \in Elems(TempoNoteEvents(T, tpq))}

TempoNoteResult(T, tpq) ==
  /\ result.tag = "Ok" /\ Len(result.notes) = 1
  /\ IsMicros(result.notes[1].start, T, tpq)
  /\ IsMicros(result.notes[1].duration, T, tpq)
  /\ result.notes[1].note = 60 /\ result.notes[1].channel = 0
  /\ result.notes[1].velocity = 64 /\ result.notes[1].confidence = "None"

\* C3 as stated: for every T and every resolution tpq, the file with Tempo T at
\* tick 0, NoteOn at tick tpq and NoteOff at tick 2*tpq gives exactly one note
\* with start = duration = T / 1_000_000 seconds.
C3_TempoNoteAnyResolution ==
  \A T \in TempoChoices : \A tpq \in 0..MaxResolution :
    TempoNoteFile(T, tpq) => TempoNoteResult(T, tpq)

\* C3 amended: the same for every T and every resolution tpq >= 1.
C3_TempoNote ==
  \A T \in TempoChoices : \A tpq \in 1..MaxResolution :
    TempoNoteFile(T, tpq) => TempoNoteResult(T, tpq)

C3_Witness ==
  /\ TempoNoteFile(250000, 3)
  /\ Len(content.tracks) = 2
  /\ TempoNoteResult(250000, 3)

\* C4: a file whose timing is not metrical is rejected with an error and no
\* notes, and nothing of it is merged, clocked or matched.
C4_TimingRejected ==
  (content.ok /\ content.timing.tag # "Metrical") =>
    /\ events = <<>> /\ clocked = <<>> /\ notes = <<>> /\ ongoing = EmptyMap
    /\ seconds = Fin(0) /\ last_tick = 0
    /\ pc \in {"parse", "done"}
    /\ Done => (result.tag = "Err" /\ result.notes = <<>>)

C4_Witness ==
  /\ Done /\ content.ok /\ content.timing.tag = "Timecode"
  /\ Len(content.tracks) = 1 /\ Len(content.tracks[1]) = 1
  /\ result = Err("SMPTE time formats are not supported")

\* C5: a NoteOff or zero-velocity NoteOn for a key that is not sounding emits
\* no note, changes neither the ongoing map nor the notes, and does not end
\* the decode.
C5_OrphanCloseIgnored ==
  [][(Processing /\ Closing(Current) /\ Key(Current) \notin DOMAIN ongoing)
       => (notes' = notes /\ ongoing' = ongoing /\ pc' = "loop" /\ result' = Pending)]_vars

C5_Witness ==
  /\ Returned /\ Len(clocked) = 3
  /\ Closing(clocked[1].kind)
  /\ Len(result.notes) = 1

MatchedPair(i, j) ==
  /\ i < j
  /\ Opening(clocked[i].kind) /\ Closing(clocked[j].kind)
  /\ Key(clocked[i].kind) = Key(clocked[j].kind)
  /\ \A m \in (i + 1)..(j - 1) :
       ~(NoteEvent(clocked[m].kind) /\ Key(clocked[m].kind) = Key(clocked[i].kind))

MatchedPairs == {ij \in (1..Len(clocked)) \X (1..Len(clocked)) : MatchedPair(ij[1], ij[2])}

NoteOfPair(i, j) ==
  [note |-> clocked[i].kind.key, start |-> clocked[i].seconds,
   duration |-> FSub(clocked[j].seconds, clocked[i].seconds),
   velocity |-> clocked[i].kind.vel, channel |-> clocked[i].kind.channel,
   confidence |-> "None"]

\* C6: matching is per (channel, pitch): every open and the next close of its
\* own channel and pitch give a note with that open's onset, velocity and
\* channel, whatever happens to the same pitch on another channel in between,
\* and the output holds no other note.
C6_PerChannelMatching ==
  Returned =>
    /\ \A ij \in MatchedPairs : NoteOfPair(ij[1], ij[2]) \in Elems(result.notes)
    /\ Len(result.notes) = Cardinality(MatchedPairs)

C6_Witness ==
  /\ Returned /\ Len(clocked) = 4
  /\ clocked[1].kind = NoteOn(0, 60, 64) /\ clocked[2].kind = NoteOn(1, 60, 100)
  /\ clocked[3].kind = NoteOff(0, 60, 32) /\ clocked[4].kind = NoteOff(1, 60, 32)
  /\ clocked[1].tick < clocked[2].tick /\ clocked[2].tick < clocked[3].tick
  /\ clocked[3].tick < clocked[4].tick
  /\ ticks_per_quarter > 0
  /\ Len(result.notes) = 2
  /\ result.notes[1].channel = 0 /\ result.notes[1].velocity = 64
  /\ result.notes[2].channel = 1 /\ result.notes[2].velocity = 100
  /\ result.notes[1].start = clocked[1].seconds
  /\ result.notes[2].start = clocked[2].seconds

\* C7: a metrical file with no tracks or no note events returns Ok with an
\* empty note list.
C7_EmptyOk ==
  (Done /\ MetricalFile /\ \A k \in AllKinds(content.tracks) : ~NoteEvent(k))
    => result = Ok(<<>>)

C7_Witness ==
  /\ Done /\ MetricalFile /\ result = Ok(<<>>)
  /\ Len(content.tracks) = 2
  /\ AllKinds(content.tracks) = {Other, Tempo(250000)}

C7_WitnessNoTracks == Done /\ MetricalFile /\ content.tracks = <<>> /\ result = Ok(<<>>)

\* C8: whenever a close comes at the same absolute tick as the open it
\* matches, the note has duration 0 (so NoteOn velocity 64 at tick 0 then
\* NoteOn velocity 0 at tick 0 gives one note of duration 0).
C8_SameTickZero ==
  [][(Processing /\ Closing(Current) /\ Key(Current) \in DOMAIN ongoing
        /\ clocked # <<>> /\ Opening(clocked[Len(clocked)].kind)
        /\ Key(clocked[Len(clocked)].kind) = Key(Current)
        /\ clocked[Len(clocked)].tick = Head(events).tick)
       => (Len(notes') = Len(notes) + 1 /\ notes'[Len(notes')].duration = Fin(0))]_vars

\* C8 at tick 0: NoteOn velocity 64 then NoteOn velocity 0, both at tick 0.
C8_TickZero ==
  (Done /\ MetricalFile /\ Len(clocked) = 2
     /\ clocked[1].tick = 0 /\ clocked[2].tick = 0
     /\ clocked[1].kind.tag = "NoteOn" /\ clocked[1].kind.vel = 64
     /\ clocked[2].kind = NoteOn(clocked[1].kind.channel, clocked[1].kind.key, 0))
    => result = Ok(<<[note |-> clocked[1].kind.key, start |-> Fin(0), duration |-> Fin(0),
                     velocity |-> 64, channel |-> clocked[1].kind.channel,
                     confidence |-> "None"]>>)

C8_Witness ==
  /\ Done /\ MetricalFile /\ Len(clocked) = 2
  /\ clocked[1].tick = 0 /\ clocked[2].tick = 0
  /\ clocked[1].kind = NoteOn(0, 60, 64) /\ clocked[2].kind = NoteOn(0, 60, 0)
  /\ Len(result.notes) = 1 /\ result.notes[1].duration = Fin(0)

\* C9: a NoteOff (any velocity) or zero-velocity NoteOn for a sounding key
\* emits exactly one note and silences the key; the note has the recorded
\* onset, duration = clock - onset, the velocity recorded at onset and no
\* confidence.
C9_CloseEmits ==
  [][(Processing /\ Closing(Current) /\ Key(Current) \in DOMAIN ongoing)
       => /\ notes' = Append(notes,
                 [note |-> Current.key,
                  start |-> ongoing[Key(Current)].start,
                  duration |-> FSub(seconds', ongoing[Key(Current)].start),
                  velocity |-> ongoing[Key(Current)].vel,
                  channel |-> Current.channel,
                  confidence |-> "None"])
          /\ Key(Current) \notin DOMAIN ongoing'
          /\ \A k \in DOMAIN ongoing \ {Key(Current)} :
               k \in DOMAIN ongoing' /\ ongoing'[k] = ongoing[k]]_vars

C9_Witness ==
  /\ pc = "loop" /\ Len(clocked) = 2 /\ Len(notes) = 1
  /\ clocked[1].kind = NoteOn(0, 60, 100)
  /\ clocked[2].kind = NoteOff(0, 60, 32)
  /\ clocked[1].seconds # clocked[2].seconds
  /\ notes[1].velocity = 100 /\ notes[1].start = clocked[1].seconds
  /\ ongoing = EmptyMap

\* C10: a NoteOn with velocity > 0 for a sounding key emits no note and
\* replaces the recorded onset and velocity by its own.
C10_Retrigger ==
  [][(Processing /\ Opening(Current) /\ Key(Current) \in DOMAIN ongoing)
       => /\ notes' = notes
          /\ DOMAIN ongoing' = DOMAIN ongoing
          /\ ongoing'[Key(Current)] = [start |-> seconds', vel |-> Current.vel]
          /\ \A k \in DOMAIN ongoing \ {Key(Current)} : ongoing'[k] = ongoing[k]]_vars

C10_Witness ==
  /\ Returned /\ Len(clocked) = 3
  /\ clocked[1].kind = NoteOn(0, 60, 64)
  /\ clocked[2].kind = NoteOn(0, 60, 100)
  /\ Closing(clocked[3].kind) /\ Key(clocked[3].kind) = <<0, 60>>
  /\ clocked[1].seconds # clocked[2].seconds
  /\ clocked[2].seconds # clocked[3].seconds
  /\ result.notes = <<[note |-> 60, start |-> clocked[2].seconds,
                       duration |-> FSub(clocked[3].seconds, clocked[2].seconds),
                       velocity |-> 100, channel |-> 0, confidence |-> "None"]>>

NotesOfKey(ns, k) == {i \in 1..Len(ns) : <<ns[i].channel, ns[i].note>> = k}
ClosesOfKey(k) == {j \in 1..Len(clocked) : Closing(clocked[j].kind) /\ Key(clocked[j].kind) = k}

\* C11: a key still sounding when the events run out gives no note: every
\* note of the output ends at a closing event of its own key that is in the
\* input, and no key has more notes than closing events.
C11_NoSyntheticClose ==
  Returned =>
    /\ \A n \in Elems(result.notes) :
         \E j \in ClosesOfKey(<<n.channel, n.note>>) :
           n.duration = FSub(clocked[j].seconds, n.start)
    /\ \A k \in Channels \X Pitches :
         Cardinality(NotesOfKey(result.notes, k)) <= Cardinality(ClosesOfKey(k))

C11_Witness ==
  /\ Returned /\ Len(clocked) = 3
  /\ Opening(clocked[3].kind) /\ Key(clocked[3].kind) \in DOMAIN ongoing
  /\ Len(result.notes) = 1
  /\ <<result.notes[1].channel, result.notes[1].note>> = Key(clocked[3].kind)
  /\ Cardinality(ClosesOfKey(Key(clocked[3].kind))) = 1
  /\ clocked[3].seconds # clocked[2].seconds

RECURSIVE SpecifiedTempo(_)
\* the tempo in effect when the i-th processed event is timed
SpecifiedTempo(i) ==
  IF i = 1 THEN 500000
  ELSE IF clocked[i - 1].kind.tag = "Tempo" THEN clocked[i - 1].kind.tempo
  ELSE SpecifiedTempo(i - 1)

RECURSIVE SpecifiedSeconds(_)
\* the specified clock: every event adds
\* (current_tick - last_tick) * tempo_micro / ticks_per_quarter / 1_000_000
\* and then makes its tick the last tick
SpecifiedSeconds(i) ==
  LET last == IF i = 1 THEN 0 ELSE clocked[i - 1].tick
      total == IF i = 1 THEN Fin(0) ELSE SpecifiedSeconds(i - 1)
  IN FAdd(total, TicksToSeconds(clocked[i].tick - last, SpecifiedTempo(i), ticks_per_quarter))

\* C12: every processed event gets from the coded clock (saturating
\* subtraction, update only when the tick delta is not 0) the timestamp the
\* specified clock gives it.
C12_ClockRefines ==
  \A i \in 1..Len(clocked) : clocked[i].seconds = SpecifiedSeconds(i)

\* C12 for the files of resolution >= 1
C12_ClockRefinesPositive ==
  ticks_per_quarter > 0 => C12_ClockRefines

C12_WitnessPositive ==
  /\ Done /\ ticks_per_quarter > 0 /\ Len(clocked) = 4
  /\ clocked[1].tick = 1 /\ clocked[1].kind = Tempo(250000)
  /\ clocked[2].tick = 1 /\ clocked[3].tick = 2 /\ clocked[4].tick = 2
  /\ clocked[4].seconds = Fin(750000)

\* C13: a Tempo event changes tempo_micro only after the clock has advanced
\* for its own tick at the old tempo: the step of every event adds the ticks
\* since the last tick at the tempo in effect before the event, an event at
\* the tick of the one before it gets the same timestamp, and the tempo a
\* Tempo event carries is in effect from the next event on.
C13_TempoAfterAdvance ==
  [][Processing =>
       LET d == Head(events).tick - last_tick
       IN /\ d >= 0
          /\ d = 0 => seconds' = seconds
          /\ d > 0 => seconds' = FAdd(seconds, TicksToSeconds(d, tempo_micro, ticks_per_quarter))
          /\ tempo_micro' = (IF Current.tag = "Tempo" THEN Current.tempo ELSE tempo_micro)
          /\ last_tick' = Head(events).tick]_vars

C13_Witness ==
  /\ Done /\ ticks_per_quarter > 0 /\ Len(clocked) = 4
  /\ clocked[1].kind = Other /\ clocked[1].tick = 1 /\ clocked[1].seconds = Fin(500000)
  /\ clocked[2].kind = Tempo(250000) /\ clocked[2].tick = 2
  /\ clocked[2].seconds = Fin(1000000)
  /\ clocked[3].kind = NoteOn(0, 60, 64) /\ clocked[3].tick = 2
  /\ clocked[3].seconds = Fin(1000000)
  /\ clocked[4].tick = 3 /\ clocked[4].seconds = Fin(1250000)

\* C14: the running seconds timestamp never decreases from one processed
\* event to the next (nor below the 0 it starts from), whatever the tempo
\* changes (tempo 0 included) and the tick deltas: the timestamps are a
\* non-decreasing sequence.
C14_NonDecreasing ==
  \A i \in 1..Len(clocked) :
    FLe(IF i = 1 THEN Fin(0) ELSE clocked[i - 1].seconds, clocked[i].seconds)

\* C14 for the files of resolution >= 1
C14_NonDecreasingPositive == ticks_per_quarter > 0 => C14_NonDecreasing

\* no timestamp compares less than the one before it (a NaN compares to
\* nothing)
C14_NoStepDown ==
  \A i \in 1..Len(clocked) :
    PartialCmp(clocked[i].seconds, IF i = 1 THEN Fin(0) ELSE clocked[i - 1].seconds) # "lt"

C14_WitnessPositive ==
  /\ Done /\ ticks_per_quarter > 0 /\ Len(clocked) = 4
  /\ clocked[1].tick = 1 /\ clocked[1].seconds = Fin(500000)
  /\ clocked[2].kind = Tempo(0) /\ clocked[2].tick = 2
  /\ clocked[3].tick = 3 /\ clocked[3].seconds = Fin(1000000)
  /\ clocked[3].kind = Tempo(250000)
  /\ clocked[4].tick = 4 /\ clocked[4].seconds = Fin(1250000)

RECURSIVE PrefixSum(_, _)
\* the sum of the first j deltas of a track
PrefixSum(track, j) == IF j = 0 THEN 0 ELSE PrefixSum(track, j - 1) + track[j].delta

\* the events of the file, by track index and index in the track
Positions ==
  UNION {{<<i, j>> : j \in 1..Len(content.tracks[i])} : i \in 1..Len(content.tracks)}

TickOf(p) == PrefixSum(content.tracks[p[1]], p[2])
KindOf(p) == content.tracks[p[1]][p[2]].kind

\* p comes before q: lower tick, then lower track, then earlier in the track
Before(p, q) ==
  \/ TickOf(p) < TickOf(q)
  \/ TickOf(p) = TickOf(q) /\ p[1] < q[1]
  \/ TickOf(p) = TickOf(q) /\ p[1] = q[1] /\ p[2] < q[2]

Rank(p) == 1 + Cardinality({q \in Positions : Before(q, p)})

\* the merged sequence: what the loop has processed, then what is left
Merged ==
  [i \in 1..Len(clocked) |-> [tick |-> clocked[i].tick, kind |-> clocked[i].kind]] \o events

\* C15: when the loop has run, the events were processed in ascending order
\* of absolute tick, and events of equal tick in the order of their tracks and,
\* within one track, in the order of the track.
C15_StableMerge ==
  (pc = "loop" /\ events = <<>>) =>
    /\ Len(Merged) = Cardinality(Positions)
    /\ \A i \in 1..(Len(Merged) - 1) : Merged[i].tick <= Merged[i + 1].tick
    /\ \A p \in Positions : Merged[Rank(p)] = [tick |-> TickOf(p), kind |-> KindOf(p)]

C15_Witness ==
  /\ pc = "loop" /\ events = <<>> /\ Len(content.tracks) = 2
  /\ Len(content.tracks[1]) = 2 /\ Len(content.tracks[2]) = 2
  /\ content.tracks[1][1] = [delta |-> 1, kind |-> NoteOn(0, 60, 64)]
  /\ content.tracks[1][2] = [delta |-> 0, kind |-> Tempo(0)]
  /\ content.tracks[2][1] = [delta |-> 0, kind |-> Other]
  /\ content.tracks[2][2] = [delta |-> 1, kind |-> Tempo(250000)]
  /\ clocked[1].kind = Other /\ clocked[2].kind = NoteOn(0, 60, 64)
  /\ clocked[3].kind = Tempo(0) /\ clocked[4].kind = Tempo(250000)
  /\ clocked[2].tick = 1 /\ clocked[4].tick = 1

Processed == [i \in 1..Len(clocked) |-> [tick |-> clocked[i].tick, kind |-> clocked[i].kind]]

\* C16: the absolute tick of an event is the sum of the deltas of its own
\* track up to and including its own, every track counting from 0: the
\* processed events are, with their multiplicities, the events of the tracks
\* each at that sum.
C16_AbsoluteTicks ==
  (pc = "loop" /\ events = <<>>) =>
    \A v \in Elems(Processed) \cup {[tick |-> TickOf(p), kind |-> KindOf(p)] : p \in Positions} :
      Cardinality({i \in 1..Len(clocked) : Processed[i] = v})
        = Cardinality({p \in Positions : TickOf(p) = v.tick /\ KindOf(p) = v.kind})

C16_Witness ==
  /\ pc = "loop" /\ events = <<>> /\ Len(content.tracks) = 2
  /\ Len(content.tracks[1]) = 2 /\ Len(content.tracks[2]) = 2
  /\ content.tracks[1][1] = [delta |-> 1, kind |-> Other]
  /\ content.tracks[1][2] = [delta |-> 1, kind |-> Tempo(250000)]
  /\ content.tracks[2][1] = [delta |-> 0, kind |-> NoteOn(0, 60, 64)]
  /\ content.tracks[2][2] = [delta |-> 1, kind |-> Tempo(0)]
  /\ Processed = <<[tick |-> 0, kind |-> NoteOn(0, 60, 64)], [tick |-> 1, kind |-> Other],
                   [tick |-> 1, kind |-> Tempo(0)], [tick |-> 2, kind |-> Tempo(250000)]>>

\* the notes of ns whose start is equal to s, in their order in ns
SameStart(ns, s) == SelectSeq(ns, LAMBDA n : PartialCmp(n.start, s) = "eq")

C17_StableResortPositive ==
  [][(pc = "loop" /\ pc' = "done" /\ result'.tag = "Ok" /\ ticks_per_quarter > 0)
       => \A n \in Elems(notes) :
            SameStart(result'.notes, n.start) = SameStart(notes, n.start)]_vars

C17_WitnessPositive ==
  /\ Returned /\ ticks_per_quarter > 0 /\ Len(result.notes) = 4
  /\ result.notes[1].start = Fin(0) /\ result.notes[1].channel = 1
  /\ result.notes[2].start = Fin(0) /\ result.notes[2].channel = 0
  /\ result.notes[3].start = Fin(500000) /\ result.notes[3].channel = 0
  /\ result.notes[4].start = Fin(500000) /\ result.notes[4].channel = 1

C18_AlwaysOkPositive ==
  (Done /\ MetricalFile /\ ticks_per_quarter > 0) => result.tag = "Ok"

\* the index in clocked of the last note event of key k, 0 when there is none
LastNoteEvent(k) ==
  LET is == {i \in 1..Len(clocked) : NoteEvent(clocked[i].kind) /\ Key(clocked[i].kind) = k}
  IN IF is = {} THEN 0 ELSE CHOOSE i \in is : \A j \in is : j <= i

\* C20: between two events of the loop the ongoing map holds a key exactly
\* when the last note event processed for that key is a NoteOn of velocity
\* > 0, and then its one entry is the clock and the velocity of that NoteOn.
C20_OngoingInvariant ==
  pc = "loop" =>
    /\ DOMAIN ongoing \subseteq Channels \X Pitches
    /\ \A k \in Channels \X Pitches :
         LET i == LastNoteEvent(k)
         IN /\ k \in DOMAIN ongoing <=> (i > 0 /\ Opening(clocked[i].kind))
            /\ k \in DOMAIN ongoing =>
                 ongoing[k] = [start |-> clocked[i].seconds, vel |-> clocked[i].kind.vel]

C20_Witness ==
  /\ pc = "loop" /\ Len(clocked) = 3
  /\ clocked[1].kind = NoteOn(0, 60, 64) /\ clocked[2].kind = NoteOn(1, 60, 100)
  /\ clocked[3].kind = NoteOn(0, 60, 0)
  /\ clocked[1].seconds # clocked[2].seconds
  /\ DOMAIN ongoing = {<<1, 60>>}
  /\ ongoing[<<1, 60>>] = [start |-> clocked[2].seconds, vel |-> 100]

RECURSIVE LeadingGroups(_)
\* the bracketed groups a line starts with, one after the other, and the rest
LeadingGroups(s) ==
  IF s # <<>> /\ Head(s) = "[" /\ Find(s, "]") # 0
  THEN LET close == Find(s, "]")
           more == LeadingGroups(SubSeq(s, close + 1, Len(s)))
       IN [groups |-> <<SubSeq(s, 2, close - 1)>> \o more.groups, rest |-> more.rest]
  ELSE [groups |-> <<>>, rest |-> s]

\* the number of leading timestamps of a line (groups holding a colon), and
\* its trimmed text
StampCount(line) ==
  Cardinality({i \in 1..Len(LeadingGroups(Trim(line)).groups) :
                 Find(LeadingGroups(Trim(line)).groups[i], ":") # 0})

TextOf(line) == Trim(LeadingGroups(Trim(line)).rest)

RECURSIVE ExpectedEntries(_, _)
\* the entries of text t that the first n lines contribute
ExpectedEntries(t, n) ==
  IF n = 0 THEN 0
  ELSE ExpectedEntries(t, n - 1)
         + (IF TextOf(lrc_content[n]) = t THEN StampCount(lrc_content[n]) ELSE 0)

LrcDone == lrc_pc \in {"done", "panic"}

\* every line gives one entry per leading timestamp, with its trimmed text
C19_EntriesPerLine ==
  lrc_pc = "done" =>
    \A t \in {l.text : l \in Elems(lyrics)} \cup {TextOf(lrc_content[n]) : n \in 1..Len(lrc_content)} :
      Cardinality({i \in 1..Len(lyrics) : lyrics[i].text = t})
        = ExpectedEntries(t, Len(lrc_content))

\* C19: parse_lrc returns the lyric lines in ascending order of time, a line
\* with k leading timestamps (each holding a colon) gives exactly k entries
\* with the line's trimmed text, and blank lines and lines with no leading
\* timestamp give none.
C19_SortedEntries ==
  LrcDone =>
    /\ lrc_pc = "done"
    /\ \A i \in 1..(Len(lyrics) - 1) : FLe(lyrics[i].time, lyrics[i + 1].time)
    /\ C19_EntriesPerLine

C19_WitnessEntries ==
  /\ lrc_pc = "done" /\ Len(lrc_content) = 2
  /\ lrc_content[1] = <<" ", "[", "1", ":", "0", "]", "[", "x", "]", " ", "b", " ">>
  /\ lrc_content[2] = <<"[", "0", ":", "5", "]", "[", "1", ":", "0", "]", "a">>
  /\ lyrics = <<[time |-> Fin(5), text |-> <<"a">>], [time |-> Fin(60), text |-> <<"b">>],
               [time |-> Fin(60), text |-> <<"a">>]>>

OpensOfKey(k) == {i \in 1..Len(clocked) : Opening(clocked[i].kind) /\ Key(clocked[i].kind) = k}
AllOpens == {i \in 1..Len(clocked) : Opening(clocked[i].kind)}
AllCloses == {j \in 1..Len(clocked) : Closing(clocked[j].kind)}

\* C21: no opening NoteOn and no closing event gives more than one note: at
\* every point the notes, of each key and in all, are at most as many as the
\* opening NoteOns processed and at most as many as the closing events
\* processed, and every note has the channel, pitch, clock and velocity of
\* one opening NoteOn of the input.
C21_AtMostOneNote ==
  pc \in {"loop", "done"} =>
    /\ \A k \in Channels \X Pitches :
         /\ Cardinality(NotesOfKey(notes, k)) <= Cardinality(OpensOfKey(k))
         /\ Cardinality(NotesOfKey(notes, k)) <= Cardinality(ClosesOfKey(k))
    /\ Len(notes) <= Cardinality(AllOpens)
    /\ Len(notes) <= Cardinality(AllCloses)
    /\ \A n \in Elems(notes) :
         \E i \in OpensOfKey(<<n.channel, n.note>>) :
           n.start = clocked[i].seconds /\ n.velocity = clocked[i].kind.vel

C21_Witness ==
  /\ Returned /\ Len(clocked) = 4
  /\ clocked[1].kind = NoteOn(0, 60, 64) /\ clocked[2].kind = NoteOn(1, 60, 100)
  /\ clocked[3].kind = NoteOff(1, 60, 32) /\ clocked[4].kind = NoteOff(1, 60, 32)
  /\ clocked[1].seconds # clocked[2].seconds
  /\ result.notes = <<[note |-> 60, start |-> clocked[2].seconds,
                       duration |-> FSub(clocked[3].seconds, clocked[2].seconds),
                       velocity |-> 100, channel |-> 1, confidence |-> "None"]>>

(***************************************************************************)
(* C22: the events that are skipped.                                       *)
(***************************************************************************)
\* lines 66-106 for one merged event e, on the variables of the loop
LoopStep(st, e, tpq) ==
  LET secs == ClockSeconds(e.tick, st.last_tick, st.seconds,
                           ClockTempo(e.kind, st.tempo_micro), tpq)
  IN [last_tick |-> ClockLastTick(e.tick, st.last_tick),
      seconds |-> secs,
      tempo_micro |-> NextTempo(e.kind, st.tempo_micro),
      ongoing |-> NextOngoing(e.kind, secs, st.ongoing),
      notes |-> NextNotes(e.kind, secs, st.ongoing, st.notes)]

RECURSIVE RunLoop(_, _, _)
RunLoop(st, evs, tpq) ==
  IF evs = <<>> THEN st ELSE RunLoop(LoopStep(st, Head(evs), tpq), Tail(evs), tpq)

\* lines 39-111: what the decoder can return for a metrical file c
Decoded(c) ==
  LET st == RunLoop([last_tick |-> 0, seconds |-> Fin(0), tempo_micro |-> DefaultTempo,
                     ongoing |-> EmptyMap, notes |-> <<>>],
                    SortByTick(CollectEvents(c.tracks)), TimingTicks(c.timing))
  IN SortOutcomes(FinalNotes(st.notes, st.ongoing, st.seconds))

\* the places <<i, j>> of the skipped events that have a next event in their track
Skippable(c) ==
  {p \in UNION {{<<i, j>> : j \in 1..(Len(c.tracks[i]) - 1)} : i \in 1..Len(c.tracks)} :
     c.tracks[p[1]][p[2]].kind.tag = "Other"}

\* the file c without the event j of track i, whose delta goes to the next one
Removed(c, i, j) ==
  LET t == c.tracks[i]
      next == [delta |-> t[j].delta + t[j + 1].delta, kind |-> t[j + 1].kind]
  IN Smf(c.timing,
         [c.tracks EXCEPT ![i] = SubSeq(t, 1, j - 1) \o <<next>> \o SubSeq(t, j + 2, Len(t))])

AbsTick(c, i, j) == TrackAbs(c.tracks[i], 0)[j].tick

\* the clock also stops at the tick of the event j of track i without it: the
\* tick is 0, or another event of the file has it
TickShared(c, i, j) ==
  \/ AbsTick(c, i, j) = 0
  \/ \E i2 \in 1..Len(c.tracks) : \E j2 \in 1..Len(c.tracks[i2]) :
       <<i2, j2>> # <<i, j>> /\ AbsTick(c, i2, j2) = AbsTick(c, i, j)

\* the step of a skipped event: tempo, map and notes stay, the clock goes to
\* the tick of the event
SkipStep ==
  (Processing /\ Current.tag = "Other") =>
    /\ tempo_micro' = tempo_micro
    /\ ongoing' = ongoing
    /\ notes' = notes
    /\ last_tick' = Head(events).tick
    /\ seconds' = (IF Head(events).tick > last_tick
                   THEN FAdd(seconds, TicksToSeconds(Head(events).tick - last_tick,
                                                     tempo_micro, ticks_per_quarter))
                   ELSE seconds)
    /\ clocked'[Len(clocked')].seconds = seconds'

\* the step that returns gives what the file without a skipped event gives
RemovalKeepsOutput ==
  (pc = "loop" /\ events = <<>>) =>
    \A p \in Skippable(content) : result' \in Decoded(Removed(content, p[1], p[2]))

RemovalKeepsOutputSharedTick ==
  (pc = "loop" /\ events = <<>>) =>
    \A p \in Skippable(content) :
      TickShared(content, p[1], p[2]) => result' \in Decoded(Removed(content, p[1], p[2]))

\* C22 as stated: a skipped event leaves tempo_micro, the ongoing map and the
\* notes as they are and only moves the clock to its tick, and the file without
\* it, its delta added to the next event of its track, decodes to the same
\* output.
C22_SkippedEventRemovable ==
  [][SkipStep /\ RemovalKeepsOutput]_vars

\* C22, amended: a skipped event leaves tempo_micro, the ongoing map and the
\* notes as they are and only moves the clock to its tick, and the file without
\* it, its delta added to the next event of its track, decodes to the same
\* output when the tick of the event is 0 or the tick of another event of the
\* file.
C22_SkippedEventRemovableSharedTick ==
  [][SkipStep /\ RemovalKeepsOutputSharedTick]_vars

\* a skipped event between a NoteOn of its tick and the NoteOff: the note is
\* the one of the file without the skipped event, in binary64
C22_Witness ==
  /\ Returned /\ arithmetic = "binary64"
  /\ content.tracks = <<<<[delta |-> 1, kind |-> NoteOn(0, 60, 64)],
                          [delta |-> 0, kind |-> Other],
                          [delta |-> 5, kind |-> NoteOff(0, 60, 32)]>>>>
  /\ Skippable(content) = {<<1, 2>>} /\ TickShared(content, 1, 2)
  /\ Len(result.notes) = 1
  /\ result.notes[1].start = TicksToSeconds(1, DefaultTempo, ticks_per_quarter)
  /\ result.notes[1].start.cls = "b64"
  /\ result.notes[1].duration.cls = "b64"
  /\ result \in Decoded(Removed(content, 1, 2))

====
